---- MODULE Spec2Model ----
(***************************************************************************)
(* Model of RedditDataProcessor (src/RedditDataProcessor.py): the          *)
(* checkpointed batch runner process_posts, the per-post pipeline          *)
(* _process_single_post, the answer miner find_answers, the model gateway  *)
(* make_api_call and the text normaliser _normalize_text.                  *)
(*                                                                         *)
(* Encoding of Python values.  Text values are TLA+ strings.  The integer  *)
(* sentinels -1000 and -999 are the tagged strings "int:-1000" and         *)
(* "int:-999", so that they differ from every text (also from the text     *)
(* "-1000").  Python None is "py:None", which differs from the text        *)
(* "None".  Confidence is an integer number of hundredths (0.95 is 95).    *)
(* A JSON response is a dict: a record with a field keys, the set of keys  *)
(* that are present, read with Get as dict.get reads it.                   *)
(***************************************************************************)
EXTENDS Integers, Sequences, FiniteSets, TLC

\* ------------------------------------------------------------------ bounds
\* Longest post list that is enumerated exhaustively over all profiles.
MaxShort == 2
\* Long post lists have CheckpointEvery .. CheckpointEvery + MaxExtra posts.
MaxExtra == 2
\* Number of runs of process_posts over the same output path.
MaxRuns == 2

\* ------------------------------------------------------- program constants
CheckpointEvery == 50
StopAfterAttempt == 3
DefaultMaxRetries == 3
DefaultChunkSize == 1000
ConfThreshold == 95

NoSignal == "int:-1000"
Absent == "int:-999"
PyNone == "py:None"
NoSteps == "No steps"
NoAnswer == "No relevant answer found"

\* dict.get(key, default)
Get(d, k, default) == IF k \in d.keys THEN d[k] ELSE default

Min(a, b) == IF a <= b THEN a ELSE b

\* ------------------------------------------------------------ normaliser
\* A text value: kind "str" with its code points, kind "none" (None), or
\* kind "nan" (a non-text truthy cell such as the float NaN that the CSV
\* loader yields for an empty cell).
StrText(cs) == [kind |-> "str", chars |-> cs]
NoneText == [kind |-> "none", chars |-> <<>>]
NanText == [kind |-> "nan", chars |-> <<>>]

\* the code points str.strip() removes: every character for which
\* str.isspace() is true
Whitespace ==
  (9..13) \cup (28..32) \cup {133, 160, 5760} \cup (8192..8202)
    \cup {8232, 8233, 8239, 8287, 12288}

RECURSIVE FoldChars(_)
FoldChars(cs) ==
  IF cs = <<>> THEN <<>>
  ELSE LET code == Head(cs)
           rest == FoldChars(Tail(cs))
       IN IF 65281 <= code /\ code <= 65374 THEN <<code - 65248>> \o rest
          ELSE IF code = 12288 THEN <<32>> \o rest
          ELSE IF 11904 <= code /\ code <= 12287 THEN rest
          ELSE <<code>> \o rest

RECURSIVE LStrip(_)
LStrip(cs) ==
  IF cs # <<>> /\ Head(cs) \in Whitespace THEN LStrip(Tail(cs)) ELSE cs

RECURSIVE RStrip(_)
RStrip(cs) ==
  IF cs # <<>> /\ cs[Len(cs)] \in Whitespace
  THEN RStrip(SubSeq(cs, 1, Len(cs) - 1)) ELSE cs

Strip(cs) == RStrip(LStrip(cs))

\* _normalize_text: raised is TRUE when iterating a non-text value fails.
NormalizeText(text) ==
  IF text.kind = "nan" THEN [raised |-> TRUE, value |-> NoneText]
  ELSE IF text.kind = "str" /\ text.chars # <<>>
  THEN [raised |-> FALSE, value |-> StrText(Strip(FoldChars(text.chars)))]
  ELSE [raised |-> FALSE, value |-> NoneText]

\* --------------------------------------------------------------- gateway
\* The model behind the gateway is a script: the outcome of the 1st, 2nd
\* and 3rd invocation made by one make_api_call; "other" is a failure that
\* is neither a ConnectionError nor a TimeoutError.
Outcomes == {"ok", "ConnectionError", "TimeoutError", "other"}
TransientErrors == {"ConnectionError", "TimeoutError"}
GatewayScripts == [1..StopAfterAttempt -> Outcomes]
AllOk == [n \in 1..StopAfterAttempt |-> "ok"]
AllTransient == [n \in 1..StopAfterAttempt |-> "ConnectionError"]
AllOther == [n \in 1..StopAfterAttempt |-> "other"]
OneTransient ==
  [n \in 1..StopAfterAttempt |-> IF n = 1 THEN "TimeoutError" ELSE "ok"]

\* ShouldRetry retrying after any failure
ShouldRetry_AnyFailure(outcome, n) ==
  outcome # "ok" /\ n < StopAfterAttempt

\* the retry decorator: attempt n failed with outcome; is another one made?
ShouldRetry(outcome, n) ==
  outcome \in TransientErrors /\ n < StopAfterAttempt

RECURSIVE GatewayAttempt(_, _)
GatewayAttempt(script, n) ==
  IF script[n] = "ok" THEN [raised |-> FALSE, invocations |-> n]
  ELSE IF ShouldRetry(script[n], n) THEN GatewayAttempt(script, n + 1)
  ELSE [raised |-> TRUE, invocations |-> n]

\* make_api_call under its tenacity retry decorator
MakeApiCall(script) == GatewayAttempt(script, 1)

\* ----------------------------------------------------------- answer miner
MiningKeys == {"Answer", "Steps", "Confidence", "Is_Solution"}

AbsentResult(n) ==
  [raised |-> FALSE, solution |-> Absent, recommendation |-> Absent,
   steps |-> NoSteps, confidence |-> 0, invocations |-> n]

\* find_answers raises to its caller: "\n".join over the comment bodies
\* fails on a body that is not text (NaN of an empty cell, None), before
\* the try and before any model call
JoinRaises ==
  [raised |-> TRUE, solution |-> PyNone, recommendation |-> PyNone,
   steps |-> PyNone, confidence |-> 0, invocations |-> 0]

\* a Confidence of the response that is not a number (a JSON string or
\* null), encoded below the range of confidences: comparing it with 0.95
\* raises TypeError
NotNumeric == -1

\* MiningFailed that returns a tuple of None
MiningFailed_ReturnsNone(n) ==
  [raised |-> FALSE, solution |-> PyNone, recommendation |-> PyNone,
   steps |-> PyNone, confidence |-> 0, invocations |-> n]

\* the except branch of find_answers
MiningFailed(n) == AbsentResult(n)

\* IsNoAnswer that takes every answer for a real one
IsNoAnswer_Never(answer) == FALSE

\* the test for the no-answer literal
IsNoAnswer(answer) == answer = NoAnswer

\* the try block of find_answers, from the gateway call on: script and
\* resp are the model's behaviour on the answer prompt.  Step a of the
\* decision rule, then the override of step b.
MineComments(script, resp) ==
  LET api == MakeApiCall(script) IN
    IF api.raised THEN MiningFailed(api.invocations)
    ELSE LET answer == Get(resp, "Answer", NoAnswer)
             steps0 == Get(resp, "Steps", NoSteps)
             confidence == Get(resp, "Confidence", 0)
             is_solution == Get(resp, "Is_Solution", FALSE)
             high == is_solution /\ confidence >= ConfThreshold
             solution0 == IF high THEN answer ELSE Absent
             recommendation0 == IF high THEN Absent ELSE answer
         IN IF IsNoAnswer(answer) THEN AbsentResult(api.invocations)
            ELSE IF confidence = NotNumeric
            THEN MiningFailed(api.invocations)
            ELSE IF confidence < ConfThreshold
            THEN [raised |-> FALSE, solution |-> Absent,
                  recommendation |-> answer, steps |-> NoSteps,
                  confidence |-> confidence, invocations |-> api.invocations]
            ELSE [raised |-> FALSE, solution |-> solution0,
                  recommendation |-> recommendation0, steps |-> steps0,
                  confidence |-> confidence, invocations |-> api.invocations]

\* FindAnswers without the test for an empty comment set
FindAnswers_NoEmptyCheck(has_comments, bad_comment, script, resp) ==
  IF has_comments /\ bad_comment THEN JoinRaises
  ELSE MineComments(script, resp)

\* find_answers(comments_data, post_id, ...): has_comments is whether a
\* comment row matches the post id, bad_comment whether the body of one of
\* these rows is not text.
FindAnswers(has_comments, bad_comment, script, resp) ==
  IF ~has_comments THEN AbsentResult(0)
  ELSE IF bad_comment THEN JoinRaises
  ELSE MineComments(script, resp)

\* ------------------------------------------------------ per-post pipeline
AnalysisKeys == {"user_complaint", "diagnosis", "cybersecurity_relevance"}

NoRecord ==
  [post_id |-> 0, user_complaint |-> PyNone, diagnosis |-> PyNone,
   cybersecurity_relevance |-> PyNone, solution |-> PyNone,
   recommendation |-> PyNone, steps |-> PyNone, confidence |-> 0]

\* IsNoSignal testing the complaint only
IsNoSignal_ComplaintOnly(user_complaint, diagnosis) ==
  user_complaint = NoSignal \/ user_complaint = PyNone

\* the no-signal test on the post-analysis response
IsNoSignal(user_complaint, diagnosis) ==
  \/ user_complaint = NoSignal
  \/ diagnosis = NoSignal
  \/ user_complaint = PyNone
  \/ diagnosis = PyNone

\* n model invocations of one kind; complaint is the user_complaint input
\* of the prompt (the post-analysis prompt has none)
ModelCalls(kind, complaint, n) ==
  [k \in 1..n |-> [kind |-> kind, complaint |-> complaint]]

\* outcome of one call of _process_single_post that returns None
ReturnsNone(acalls, gcalls, calls) ==
  [raised |-> FALSE, has_result |-> FALSE, result |-> NoRecord,
   analysis_calls |-> acalls, gen_calls |-> gcalls,
   mined |-> FALSE, mine_calls |-> 0, calls |-> calls]

\* outcome of one call of _process_single_post that raises to its caller
Raises ==
  [raised |-> TRUE, has_result |-> FALSE, result |-> NoRecord,
   analysis_calls |-> 0, gen_calls |-> 0, mined |-> FALSE, mine_calls |-> 0,
   calls |-> <<>>]

\* ShouldGeneralize for relevance Low only
ShouldGeneralize_LowOnly(relevance) == relevance = "Low"

\* the test that sends the complaint to _generalize_complaint
ShouldGeneralize(relevance) == relevance \in {"Low", "None"}

\* _process_single_post(post, json_prompt, comments_data).  post carries
\* the post's cells and the model's (deterministic) behaviour on it.
ProcessSinglePost(post_id, post) ==
  IF NormalizeText(post.title).raised \/ NormalizeText(post.self_text).raised
  THEN Raises
  ELSE LET api == MakeApiCall(post.analysis_script)
           acalls == ModelCalls("analysis", PyNone, api.invocations) IN
    IF api.raised THEN ReturnsNone(api.invocations, 0, acalls)
    ELSE LET user_complaint == Get(post.analysis, "user_complaint", PyNone)
             diagnosis == Get(post.analysis, "diagnosis", PyNone)
             relevance == Get(post.analysis, "cybersecurity_relevance", "None")
             generalize == ShouldGeneralize(relevance)
             gcalls == IF generalize
                       THEN ModelCalls("generalize", user_complaint, 1)
                       ELSE <<>>
         IN IF IsNoSignal(user_complaint, diagnosis)
            THEN ReturnsNone(api.invocations, 0, acalls)
            ELSE IF generalize /\ ~post.gen_ok
            THEN ReturnsNone(api.invocations, 1, acalls \o gcalls)
            ELSE LET complaint == IF generalize THEN post.generalized
                                  ELSE user_complaint
                     found == FindAnswers(post.has_comments,
                                          post.bad_comment,
                                          post.mining_script, post.mining)
                     mcalls == ModelCalls("mining", complaint,
                                          found.invocations)
                 IN IF found.raised
                    THEN ReturnsNone(api.invocations, Len(gcalls),
                                     acalls \o gcalls)
                    ELSE
                    [raised |-> FALSE, has_result |-> TRUE,
                     result |-> [post_id |-> post_id,
                                 user_complaint |-> complaint,
                                 diagnosis |-> diagnosis,
                                 cybersecurity_relevance |-> relevance,
                                 solution |-> found.solution,
                                 recommendation |-> found.recommendation,
                                 steps |-> found.steps,
                                 confidence |-> found.confidence],
                     analysis_calls |-> api.invocations,
                     gen_calls |-> IF generalize THEN 1 ELSE 0,
                     mined |-> TRUE, mine_calls |-> found.invocations,
                     calls |-> acalls \o gcalls \o mcalls]

\* ----------------------------------------------------------- post profiles
\* The posts of a run are drawn from named profiles: the cells of the post
\* and what the model answers for it.
Analysis(c, d, r) ==
  [keys |-> AnalysisKeys, user_complaint |-> c, diagnosis |-> d,
   cybersecurity_relevance |-> r]

Mining(a, s, c, b) ==
  [keys |-> MiningKeys, Answer |-> a, Steps |-> s, Confidence |-> c,
   Is_Solution |-> b]

BaseProfile ==
  [title |-> StrText(<<65320, 105>>), self_text |-> StrText(<<112, 12288>>),
   analysis_script |-> AllOk,
   analysis |-> Analysis("cannot log in", "expired password", "High"),
   gen_ok |-> TRUE, generalized |-> "general complaint",
   has_comments |-> TRUE, bad_comment |-> FALSE, mining_script |-> AllOk,
   mining |-> Mining("Reset your router", "1. unplug 2. plug", 97, TRUE)]

ProfileNames ==
  {"solution", "recommend", "weak", "nosignal", "nodiag", "nullcomplaint",
   "nokeys", "gwfail", "gwother", "badtext", "nocomments", "noanswer",
   "minefail", "genfail", "general", "mineother", "badconf",
   "badcomment"}

Profile(name) ==
  CASE name = "solution" -> BaseProfile
    [] name = "recommend" ->
         [BaseProfile EXCEPT !.mining.Confidence = 80,
                             !.analysis.cybersecurity_relevance = "Medium"]
    [] name = "weak" ->
         [BaseProfile EXCEPT !.mining.Is_Solution = FALSE]
    [] name = "nosignal" ->
         [BaseProfile EXCEPT !.analysis = Analysis(NoSignal, NoSignal, "None")]
    [] name = "nodiag" ->
         [BaseProfile EXCEPT !.analysis.diagnosis = NoSignal]
    [] name = "nullcomplaint" ->
         [BaseProfile EXCEPT !.analysis.user_complaint = PyNone,
                             !.analysis.cybersecurity_relevance = "Low"]
    [] name = "nokeys" ->
         [BaseProfile EXCEPT !.analysis.keys = {"user_complaint"}]
    [] name = "gwfail" ->
         [BaseProfile EXCEPT !.analysis_script = AllTransient]
    [] name = "gwother" ->
         [BaseProfile EXCEPT !.analysis_script = AllOther]
    [] name = "badtext" ->
         [BaseProfile EXCEPT !.self_text = NanText]
    [] name = "nocomments" ->
         [BaseProfile EXCEPT !.has_comments = FALSE,
                             !.analysis.cybersecurity_relevance = "Low"]
    [] name = "noanswer" ->
         [BaseProfile EXCEPT !.mining.Answer = NoAnswer,
                             !.analysis.keys = {"user_complaint", "diagnosis"}]
    [] name = "minefail" ->
         [BaseProfile EXCEPT !.mining_script = AllTransient]
    [] name = "genfail" ->
         [BaseProfile EXCEPT !.analysis.cybersecurity_relevance = "None",
                             !.gen_ok = FALSE]
    [] name = "general" ->
         [BaseProfile EXCEPT !.analysis.cybersecurity_relevance = "None"]
    [] name = "mineother" ->
         [BaseProfile EXCEPT !.mining_script = AllOther,
                             !.analysis.cybersecurity_relevance = "Low"]
    [] name = "badconf" ->
         [BaseProfile EXCEPT !.mining.Confidence = NotNumeric]
    [] name = "badcomment" ->
         [BaseProfile EXCEPT !.bad_comment = TRUE,
                             !.analysis.cybersecurity_relevance = "Low"]

\* ------------------------------------------------------------------ state
VARIABLES
  posts,        \* posts_data: the sequence of profile names, post id = position
  chunk_size,   \* argument of process_posts
  max_retries,  \* attribute of the processor
  pc,           \* position of process_posts: idle, loop, save_csv, cleanup,
                \* done (returned), stopped (interrupted), failed (it raised)
  runs,         \* number of calls of process_posts so far
  results,      \* the in-memory result list
  i,            \* 0-based index of the post being processed
  chunk_end,    \* end of the current chunk
  retry_count,  \* retry_count of the current post
  ckpt,         \* the checkpoint file: [exists, valid, rows]
  csv,          \* the output table: [exists, valid, rows]
  ckpt_next,    \* history: i + 1 at the write of the checkpoint on disk
  loaded_next,  \* history: ckpt_next of the checkpoint loaded, -1 if none
  last,         \* history: the last post that reached a terminal outcome
  status,       \* history: Pending, Completed or Skipped, per post, this run
  start,        \* history: the index this run started at
  csv_written,  \* history: this run has written the output table
  fa_in,        \* input of a find_answers call
  fa_out,       \* its result
  gw_script,    \* the model's outcomes during one make_api_call
  gw_n,         \* invocations of the model made so far by that call
  gw_state,     \* idle, calling, returned, raised
  nt_in,        \* input of _normalize_text
  nt_out        \* the result of normalising it once and twice

vars == <<posts, chunk_size, max_retries, pc, runs, results, i, chunk_end,
          retry_count, ckpt, csv, ckpt_next, loaded_next, last, status, start,
          csv_written, fa_in, fa_out, gw_script, gw_n, gw_state, nt_in, nt_out>>

scenario == <<posts, chunk_size, max_retries>>
gw_vars == <<gw_script, gw_n, gw_state>>
nt_vars == <<nt_in, nt_out>>
fa_vars == <<fa_in, fa_out, gw_vars, nt_vars>>
batch_vars == <<scenario, pc, runs, results, i, chunk_end, retry_count, ckpt,
                csv, ckpt_next, loaded_next, last, status, start, csv_written>>

\* a file: absent, holding rows, or present and not parseable (valid FALSE)
NoFile == [exists |-> FALSE, valid |-> TRUE, rows |-> <<>>]
File(rows) == [exists |-> TRUE, valid |-> TRUE, rows |-> rows]
CorruptFile == [exists |-> TRUE, valid |-> FALSE, rows |-> <<>>]

\* the cut points of an unfinished table write that are examined: the first
\* MaxCut + 1 and the last one
MaxCut == 1

\* the tables an unfinished to_csv can leave: the file is written in place,
\* so it was truncated on opening and holds the rows written so far
TornTables(rows) ==
  {[exists |-> TRUE, valid |-> FALSE, rows |-> SubSeq(rows, 1, k)] :
     k \in {c \in 0..(IF rows = <<>> THEN 0 ELSE Len(rows) - 1) :
               c <= MaxCut \/ c = Len(rows) - 1}}

NoLast ==
  [post |-> 0, attempts |-> 0, outcome |-> "none", gen_calls |-> 0,
   mined |-> FALSE, mine_calls |-> 0, wrote |-> FALSE, calls |-> <<>>]

total_posts == Len(posts)

Running == {"loop", "save_csv", "cleanup"}

AllPending == [p \in 1..total_posts |-> "Pending"]

\* ------------------------------------------------------------- scenarios
ShortChunkSizes == {1, DefaultChunkSize}
LongChunkSizes == {CheckpointEvery, DefaultChunkSize}
RetryChoices == {1, DefaultMaxRetries}
LongSpecials == {"solution", "nosignal", "badtext"}
LongSpecialAt == {1, CheckpointEvery}

ShortPosts == UNION {[1..n -> ProfileNames] : n \in 0..MaxShort}

LongPosts ==
  {[p \in 1..n |-> IF p = s THEN k ELSE "solution"] :
     n \in CheckpointEvery..(CheckpointEvery + MaxExtra),
     s \in LongSpecialAt, k \in LongSpecials}

FAIdle ==
  [has_comments |-> FALSE, bad_comment |-> FALSE, script |-> AllOk,
   resp |-> Mining(NoAnswer, NoSteps, 0, FALSE)]

FAPending ==
  [done |-> FALSE, raised |-> FALSE, solution |-> PyNone,
   recommendation |-> PyNone, steps |-> PyNone, confidence |-> 0,
   invocations |-> 0]

NTPending ==
  [done |-> FALSE, once |-> [raised |-> FALSE, value |-> NoneText],
   twice |-> [raised |-> FALSE, value |-> NoneText]]

\* no find_answers call under way
FAIsIdle == fa_in = FAIdle /\ fa_out = FAPending

\* no make_api_call under way
GWIsIdle == gw_script = AllOk /\ gw_n = 0 /\ gw_state = "idle"

\* no _normalize_text call under way
NTIsIdle == nt_in = NoneText /\ nt_out = NTPending

Init ==
  /\ \/ /\ posts \in ShortPosts
        /\ chunk_size \in ShortChunkSizes
        /\ max_retries \in RetryChoices
     \/ /\ posts \in LongPosts
        /\ chunk_size \in LongChunkSizes
        /\ max_retries = DefaultMaxRetries
  /\ pc = "idle"
  /\ runs = 0
  /\ results = <<>>
  /\ i = 0
  /\ chunk_end = 0
  /\ retry_count = 0
  /\ ckpt = NoFile
  /\ csv = NoFile
  /\ ckpt_next = 0
  /\ loaded_next = -1
  /\ last = NoLast
  /\ status = AllPending
  /\ start = 0
  /\ csv_written = FALSE
  /\ FAIsIdle
  /\ GWIsIdle
  /\ NTIsIdle

\* ---------------------------------------------------------- file helpers
\* LoadFails that takes every file for parseable
LoadFails_Never(file) == FALSE

\* json.load raises on the checkpoint file
LoadFails(file) == file.exists /\ ~file.valid

\* _load_checkpoint
LoadCheckpoint(file) == IF file.exists THEN file.rows ELSE <<>>

\* _save_checkpoint(checkpoint_file, results, current_post, total_posts)
CheckpointDue(current_post) == current_post % CheckpointEvery = 0

SaveCheckpoint(file, rows, current_post) ==
  IF CheckpointDue(current_post) THEN File(rows) ELSE file

\* ---------------------------------------------------------------- actions
\* process_posts up to the first chunk: load the checkpoint, derive the
\* start index from the number of loaded results.
StartRun ==
  /\ pc \in {"idle", "stopped", "done", "failed"}
  /\ runs < MaxRuns
  /\ ~LoadFails(ckpt)
  /\ runs' = runs + 1
  /\ LET loaded == LoadCheckpoint(ckpt)
         processed_posts == Len(loaded)
     IN /\ results' = loaded
        /\ i' = processed_posts
        /\ chunk_end' = Min(processed_posts + chunk_size, total_posts)
        /\ pc' = IF processed_posts < total_posts THEN "loop" ELSE "cleanup"
        /\ start' = processed_posts
  /\ retry_count' = 0
  /\ loaded_next' = IF ckpt.exists THEN ckpt_next ELSE -1
  /\ last' = NoLast
  /\ status' = AllPending
  /\ csv_written' = FALSE
  /\ UNCHANGED <<scenario, ckpt, csv, ckpt_next, fa_vars>>

\* the process ends: what it held in memory is gone
MemoryLost ==
  /\ results' = <<>>
  /\ i' = 0
  /\ chunk_end' = 0
  /\ retry_count' = 0
  /\ last' = NoLast
  /\ status' = AllPending
  /\ start' = 0
  /\ csv_written' = FALSE

\* process_posts on a checkpoint file that cannot be parsed: json.load
\* raises in _load_checkpoint and the exception leaves process_posts
StartRunFails ==
  /\ pc \in {"idle", "stopped", "done", "failed"}
  /\ runs < MaxRuns
  /\ LoadFails(ckpt)
  /\ runs' = runs + 1
  /\ pc' = "failed"
  /\ loaded_next' = -1
  /\ MemoryLost
  /\ UNCHANGED <<scenario, ckpt, csv, ckpt_next, fa_vars>>

\* the post at index i leaves the retry loop
\* Extend that puts the new record in front
Extend_AtFront(rows, record) == <<record>> \o rows

\* results.append(result)
Extend(rows, record) == Append(rows, record)

Advance ==
  /\ i' = i + 1
  /\ retry_count' = 0
  /\ pc' = IF i + 1 = chunk_end THEN "save_csv" ELSE "loop"

\* one pass of the retry loop in which _process_single_post returns
AttemptReturns ==
  /\ pc = "loop"
  /\ retry_count < max_retries
  /\ LET out == ProcessSinglePost(i + 1, Profile(posts[i + 1]))
         appended == Extend(results, out.result)
     IN /\ ~out.raised
        /\ results' = IF out.has_result THEN appended ELSE results
        /\ ckpt' = IF out.has_result
                   THEN SaveCheckpoint(ckpt, appended, i + 1) ELSE ckpt
        /\ ckpt_next' = IF out.has_result /\ CheckpointDue(i + 1)
                        THEN i + 1 ELSE ckpt_next
        /\ last' = [post |-> i + 1, attempts |-> retry_count + 1,
                    outcome |-> IF out.has_result THEN "completed"
                                ELSE "noresult",
                    gen_calls |-> out.gen_calls, mined |-> out.mined,
                    mine_calls |-> out.mine_calls, calls |-> out.calls,
                    wrote |-> out.has_result /\ CheckpointDue(i + 1)]
  /\ status' = [status EXCEPT ![i + 1] = "Completed"]
  /\ Advance
  /\ UNCHANGED <<scenario, runs, chunk_end, csv, csv_written, loaded_next,
                 start, fa_vars>>

\* AttemptRaises that lets the last failed attempt end the run
AttemptRaises_AbortsRun ==
  /\ pc = "loop"
  /\ retry_count < max_retries
  /\ ProcessSinglePost(i + 1, Profile(posts[i + 1])).raised
  /\ IF retry_count + 1 = max_retries
     THEN /\ pc' = "failed"
          /\ i' = i
          /\ retry_count' = retry_count + 1
          /\ UNCHANGED <<last, status>>
     ELSE /\ retry_count' = retry_count + 1
          /\ UNCHANGED <<i, pc, last, status>>
  /\ UNCHANGED <<scenario, runs, results, chunk_end, ckpt, csv, csv_written,
                 ckpt_next, loaded_next, start, fa_vars>>

\* AttemptRaises that does not count the failed attempt
AttemptRaises_NoCount ==
  /\ pc = "loop"
  /\ retry_count < max_retries
  /\ ProcessSinglePost(i + 1, Profile(posts[i + 1])).raised
  /\ IF retry_count + 1 = max_retries
     THEN /\ Advance
          /\ last' = [NoLast EXCEPT !.post = i + 1,
                                    !.attempts = retry_count + 1,
                                    !.outcome = "skipped"]
          /\ status' = [status EXCEPT ![i + 1] = "Skipped"]
     ELSE UNCHANGED <<i, pc, last, status, retry_count>>
  /\ UNCHANGED <<scenario, runs, results, chunk_end, ckpt, csv, csv_written,
                 ckpt_next, loaded_next, start, fa_vars>>

\* one pass of the retry loop in which _process_single_post raises
AttemptRaises ==
  /\ pc = "loop"
  /\ retry_count < max_retries
  /\ ProcessSinglePost(i + 1, Profile(posts[i + 1])).raised
  /\ IF retry_count + 1 = max_retries
     THEN /\ Advance
          /\ last' = [NoLast EXCEPT !.post = i + 1,
                                    !.attempts = retry_count + 1,
                                    !.outcome = "skipped"]
          /\ status' = [status EXCEPT ![i + 1] = "Skipped"]
     ELSE /\ retry_count' = retry_count + 1
          /\ UNCHANGED <<i, pc, last, status>>
  /\ UNCHANGED <<scenario, runs, results, chunk_end, ckpt, csv, csv_written,
                 ckpt_next, loaded_next, start, fa_vars>>

\* SaveToCsv that starts every chunk with an empty result list
SaveToCsv_ClearsResults ==
  /\ pc = "save_csv"
  /\ csv' = File(results)
  /\ csv_written' = TRUE
  /\ results' = <<>>
  /\ IF chunk_end < total_posts
     THEN /\ chunk_end' = Min(chunk_end + chunk_size, total_posts)
          /\ pc' = "loop"
     ELSE /\ pc' = "cleanup"
          /\ UNCHANGED chunk_end
  /\ UNCHANGED <<scenario, runs, i, retry_count, ckpt, ckpt_next,
                 loaded_next, last, status, start, fa_vars>>

\* end of a chunk: save_to_csv(results, file_path), then the next chunk or
\* the end of the outer loop
SaveToCsv ==
  /\ pc = "save_csv"
  /\ csv' = File(results)
  /\ csv_written' = TRUE
  /\ IF chunk_end < total_posts
     THEN /\ chunk_end' = Min(chunk_end + chunk_size, total_posts)
          /\ pc' = "loop"
     ELSE /\ pc' = "cleanup"
          /\ UNCHANGED chunk_end
  /\ UNCHANGED <<scenario, runs, results, i, retry_count, ckpt, ckpt_next,
                 loaded_next, last, status, start, fa_vars>>

\* end of a chunk with an output table that cannot be written: to_csv
\* raises and the exception leaves process_posts.  The table is as it was
\* when the file could not be opened, unfinished when the write failed
\* under way.
SaveToCsvFails ==
  /\ pc = "save_csv"
  /\ csv' \in {csv} \cup TornTables(results)
  /\ pc' = "failed"
  /\ MemoryLost
  /\ UNCHANGED <<scenario, runs, ckpt, ckpt_next, loaded_next, fa_vars>>

\* _cleanup_checkpoint, then process_posts returns
CleanupCheckpoint ==
  /\ pc = "cleanup"
  /\ ckpt' = NoFile
  /\ ckpt_next' = 0
  /\ pc' = "done"
  /\ UNCHANGED <<scenario, runs, results, i, chunk_end, retry_count, csv,
                 csv_written, loaded_next, last, status, start, fa_vars>>

\* the run is interrupted (KeyboardInterrupt, kill): memory is lost, the
\* files stay as they are
Interrupt ==
  /\ pc \in Running
  /\ pc' = "stopped"
  /\ MemoryLost
  /\ UNCHANGED <<scenario, runs, ckpt, csv, ckpt_next, loaded_next, fa_vars>>

\* the run is killed while _save_checkpoint writes: the file was opened for
\* writing (truncated) and holds an unfinished JSON document
InterruptedWrite ==
  /\ pc = "loop"
  /\ retry_count < max_retries
  /\ ProcessSinglePost(i + 1, Profile(posts[i + 1])).has_result
  /\ CheckpointDue(i + 1)
  /\ ckpt' = CorruptFile
  /\ ckpt_next' = 0
  /\ pc' = "stopped"
  /\ MemoryLost
  /\ UNCHANGED <<scenario, runs, csv, loaded_next, fa_vars>>

\* the run is killed while save_to_csv writes: the output table is left
\* unfinished
InterruptedTableWrite ==
  /\ pc = "save_csv"
  /\ csv' \in TornTables(results)
  /\ pc' = "stopped"
  /\ MemoryLost
  /\ UNCHANGED <<scenario, runs, ckpt, ckpt_next, loaded_next, fa_vars>>

\* the steps process_posts takes by itself
RunStep ==
  \/ AttemptReturns
  \/ AttemptRaises
  \/ SaveToCsv
  \/ CleanupCheckpoint

\* what ends a run from outside, or makes it raise
Disturbance ==
  \/ Interrupt
  \/ InterruptedWrite
  \/ InterruptedTableWrite
  \/ SaveToCsvFails

Next ==
  \/ StartRun
  \/ StartRunFails
  \/ RunStep
  \/ Disturbance

Spec == Init /\ [][Next]_vars

\* one pass of the retry loop in which _process_single_post returns a record
\* and the checkpoint write that follows results.append raises (disk full,
\* path not writable): the exception is raised inside the try of the retry
\* loop, so the pass counts as a failed attempt.  The file is left as it was
\* when open() failed and unfinished when the write failed.
CheckpointWriteRaises ==
  /\ pc = "loop"
  /\ retry_count < max_retries
  /\ LET out == ProcessSinglePost(i + 1, Profile(posts[i + 1]))
     IN /\ ~out.raised
        /\ out.has_result
        /\ CheckpointDue(i + 1)
        /\ results' = Extend(results, out.result)
  /\ \E file \in {ckpt, CorruptFile} :
       /\ ckpt' = file
       /\ ckpt_next' = IF file = ckpt THEN ckpt_next ELSE 0
  /\ IF retry_count + 1 = max_retries
     THEN /\ Advance
          /\ last' = [NoLast EXCEPT !.post = i + 1,
                                    !.attempts = retry_count + 1,
                                    !.outcome = "skipped"]
          /\ status' = [status EXCEPT ![i + 1] = "Skipped"]
     ELSE /\ retry_count' = retry_count + 1
          /\ UNCHANGED <<i, pc, last, status>>
  /\ UNCHANGED <<scenario, runs, chunk_end, csv, csv_written, loaded_next,
                 start, fa_vars>>

\* process_posts on a disk where a checkpoint write can fail
NextCW ==
  \/ Next
  \/ CheckpointWriteRaises

SpecCW == Init /\ [][NextCW]_vars

\* The last of the MaxRuns runs is left alone: it is not interrupted and its
\* output path is writable.  A run that is left alone keeps taking its steps
\* (each model call returns or raises).
EarlyDisturbance == runs < MaxRuns /\ Disturbance

NextLive ==
  \/ StartRun
  \/ StartRunFails
  \/ RunStep
  \/ EarlyDisturbance

\* one profile for each way a post can leave the retry loop: with a record,
\* with None from the sentinel, with None from a swallowed gateway failure,
\* and by an exception on every attempt
LiveProfiles == {"solution", "nosignal", "gwfail", "badtext"}

InitLive ==
  /\ Init
  /\ \A p \in 1..total_posts : posts[p] \in LiveProfiles

SpecLive == InitLive /\ [][NextLive]_vars /\ WF_vars(RunStep)

\* ------------------------------------------- find_answers as a function
ConfGrid == {0, 50, 94, 95, 100}
FAScripts == {AllOk, OneTransient, AllTransient, AllOther}
FAAnswers == {"Reset your router", NoAnswer}
FASteps == {"1. unplug 2. plug", NoSteps}

MiningResponses ==
  {r \in [keys : SUBSET MiningKeys, Answer : FAAnswers, Steps : FASteps,
          Confidence : ConfGrid, Is_Solution : BOOLEAN] :
     /\ "Answer" \notin r.keys => r.Answer = NoAnswer
     /\ "Steps" \notin r.keys => r.Steps = NoSteps
     /\ "Confidence" \notin r.keys => r.Confidence = 0
     /\ "Is_Solution" \notin r.keys => r.Is_Solution = FALSE}

FAInputs ==
  {in \in [has_comments : BOOLEAN, bad_comment : BOOLEAN, script : FAScripts,
           resp : MiningResponses] : in.bad_comment => in.has_comments}

\* no run of process_posts under way
BatchIsIdle ==
  /\ posts = <<>>
  /\ chunk_size = DefaultChunkSize
  /\ max_retries = DefaultMaxRetries
  /\ pc = "idle"
  /\ runs = 0
  /\ results = <<>>
  /\ i = 0
  /\ chunk_end = 0
  /\ retry_count = 0
  /\ ckpt = NoFile
  /\ csv = NoFile
  /\ ckpt_next = 0
  /\ loaded_next = -1
  /\ last = NoLast
  /\ status = <<>>
  /\ start = 0
  /\ csv_written = FALSE

InitFA ==
  /\ BatchIsIdle
  /\ GWIsIdle
  /\ NTIsIdle
  /\ fa_in \in FAInputs
  /\ fa_out = FAPending

\* one call of find_answers on fa_in
CallFindAnswers ==
  /\ ~fa_out.done
  /\ LET r == FindAnswers(fa_in.has_comments, fa_in.bad_comment,
                          fa_in.script, fa_in.resp)
     IN fa_out' = [done |-> TRUE, raised |-> r.raised,
                   solution |-> r.solution,
                   recommendation |-> r.recommendation, steps |-> r.steps,
                   confidence |-> r.confidence, invocations |-> r.invocations]
  /\ UNCHANGED <<batch_vars, fa_in, gw_vars, nt_vars>>

NextFA == CallFindAnswers

SpecFA == InitFA /\ [][NextFA]_vars

\* ------------------------------------- make_api_call, one invocation a step
InitGW ==
  /\ BatchIsIdle
  /\ FAIsIdle
  /\ NTIsIdle
  /\ gw_script \in GatewayScripts
  /\ gw_n = 0
  /\ gw_state = "calling"

\* one invocation of the model by make_api_call: it returns, or the retry
\* decorator makes another attempt, or the failure goes to the caller
GatewayInvoke ==
  /\ gw_state = "calling"
  /\ gw_n' = gw_n + 1
  /\ gw_state' = IF gw_script[gw_n + 1] = "ok" THEN "returned"
                 ELSE IF ShouldRetry(gw_script[gw_n + 1], gw_n + 1)
                 THEN "calling" ELSE "raised"
  /\ UNCHANGED <<batch_vars, fa_in, fa_out, gw_script, nt_vars>>

NextGW == GatewayInvoke

SpecGW == InitGW /\ [][NextGW]_vars

\* ------------------------------------------ _normalize_text as a function
MaxTextLen == 3

\* an ordinary space, a no-break space, a letter, a full-width letter, the
\* full-width space and a character of the dropped band
NTAlphabet == {32, 160, 97, 65320, 12288, 11904}

NTInputs ==
  {NoneText} \cup
  {StrText(cs) : cs \in UNION {[1..n -> NTAlphabet] : n \in 0..MaxTextLen}}

InitNT ==
  /\ BatchIsIdle
  /\ FAIsIdle
  /\ GWIsIdle
  /\ nt_in \in NTInputs
  /\ nt_out = NTPending

\* _normalize_text(x), then _normalize_text of what it returned
NormalizeTwice ==
  /\ ~nt_out.done
  /\ LET once == NormalizeText(nt_in)
     IN nt_out' = [done |-> TRUE, once |-> once,
                   twice |-> NormalizeText(once.value)]
  /\ UNCHANGED <<batch_vars, fa_in, fa_out, gw_vars, nt_in>>

NextNT == NormalizeTwice

SpecNT == InitNT /\ [][NextNT]_vars

\* ------------------------------------------------ reference: one clean run
\* the result list of one uninterrupted run after its first k posts
RECURSIVE RunRows(_)
RunRows(k) ==
  IF k = 0 THEN <<>>
  ELSE LET out == ProcessSinglePost(k, Profile(posts[k]))
       IN IF out.has_result THEN Append(RunRows(k - 1), out.result)
          ELSE RunRows(k - 1)

\* the output table one uninterrupted run leaves, started without files
UninterruptedTable ==
  IF total_posts = 0 THEN NoFile ELSE File(RunRows(total_posts))

\* the first call of process_posts, run to its return, leaves that table
FirstRunTable == (pc = "done" /\ runs = 1) => csv = UninterruptedTable

PostIds(rows) == {rows[k].post_id : k \in 1..Len(rows)}

\* --------------------------------------------------------------- claims
\* C1: exactly-once across restarts.  A run that loads a checkpoint never
\* brings to a terminal outcome a post that had already reached one when
\* that checkpoint was written.
C1_ExactlyOnce ==
  [][(pc = "loop" /\ i' = i + 1 /\ loaded_next >= 0) => i >= loaded_next]_vars

\* C2: resume idempotence.  Whenever process_posts returns, after any
\* interrupted runs before it, the output table is the table of one
\* uninterrupted run (same rows, same order).
C2_ResumeIdempotent == pc = "done" => csv = UninterruptedTable

\* C3: checkpoint invariant.  The number of records in the checkpoint file
\* equals the index of the next post to process at the time of the write.
C3_CheckpointInvariant == ckpt.exists => Len(ckpt.rows) = ckpt_next

\* the analyse stage of the pipeline raises on every attempt: a cell that is
\* not text, or a gateway call that fails every time
PipelineAlwaysRaises(post) ==
  \/ NormalizeText(post.title).raised
  \/ NormalizeText(post.self_text).raised
  \/ MakeApiCall(post.analysis_script).raised

\* C4: retry bound.  A post whose pipeline raises on every attempt, the
\* gateway call included, is attempted exactly max_retries times, is then
\* skipped and has no record.
C4_RetryBound ==
  (last.post # 0 /\ PipelineAlwaysRaises(Profile(posts[last.post])))
    => /\ last.attempts = max_retries
       /\ last.post \notin PostIds(results)

\* C6: record invariant.  Every record of the result list, the checkpoint
\* and the output table has exactly one of solution and recommendation
\* populated.
ExactlyOnePopulated(r) == (r.solution # Absent) # (r.recommendation # Absent)

C6_RecordInvariant ==
  /\ \A k \in 1..Len(results) : ExactlyOnePopulated(results[k])
  /\ \A k \in 1..Len(ckpt.rows) : ExactlyOnePopulated(ckpt.rows[k])
  /\ \A k \in 1..Len(csv.rows) : ExactlyOnePopulated(csv.rows[k])

\* the post-analysis response arrives and its user_complaint or diagnosis is
\* the no-signal sentinel or is missing
SentinelResponse(post) ==
  /\ ~NormalizeText(post.title).raised
  /\ ~NormalizeText(post.self_text).raised
  /\ ~MakeApiCall(post.analysis_script).raised
  /\ \/ "user_complaint" \notin post.analysis.keys
     \/ "diagnosis" \notin post.analysis.keys
     \/ post.analysis.user_complaint = NoSignal
     \/ post.analysis.diagnosis = NoSignal

\* C7: sentinel short-circuit.  A post with a no-signal response yields no
\* record, no generalization call and no answer-mining call, is attempted
\* once, and the run goes on to the next post.
C7_SentinelShortCircuit ==
  (last.post # 0 /\ SentinelResponse(Profile(posts[last.post])))
    => /\ last.outcome = "noresult"
       /\ last.post \notin PostIds(results)
       /\ last.gen_calls = 0
       /\ ~last.mined
       /\ last.mine_calls = 0
       /\ last.attempts = 1
       /\ i = last.post
       /\ pc \in {"loop", "save_csv", "cleanup", "done"}

\* a no-signal post has been passed and the next post is up
C7_Witness ==
  /\ last.post # 0
  /\ SentinelResponse(Profile(posts[last.post]))
  /\ Profile(posts[last.post]).analysis.user_complaint # NoSignal
  /\ last.outcome = "noresult"
  /\ pc = "loop"
  /\ i = last.post

\* C9: checkpoint cadence.  The checkpoint file is written exactly when the
\* number of posts that reached a terminal outcome becomes a multiple of 50.
C9_Cadence ==
  last.post # 0 => (last.wrote <=> last.post % CheckpointEvery = 0)

\* every post that yields a record has a row in the output table
CompleteTable ==
  /\ csv.exists
  /\ \A p \in 1..total_posts :
       ProcessSinglePost(p, Profile(posts[p])).has_result
         => p \in PostIds(csv.rows)

\* C10: final file state.  When a run over a non-empty post list stops, by
\* returning or by being interrupted, there is either a complete output
\* table and no checkpoint, or an output table together with a checkpoint.
C10_FinalFiles ==
  (pc \in {"done", "stopped"} /\ total_posts > 0)
    => \/ ~ckpt.exists /\ CompleteTable
       \/ ckpt.exists /\ csv.exists

\* the gateway returned a response with a real answer and all four keys
RealAnswer ==
  /\ fa_out.done
  /\ fa_in.has_comments
  /\ ~fa_in.bad_comment
  /\ ~MakeApiCall(fa_in.script).raised
  /\ fa_in.resp.keys = MiningKeys
  /\ fa_in.resp.Answer # NoAnswer

\* C5: decision rule.  Is_Solution with Confidence >= 0.95 gives a solution
\* with the model's steps; every other combination with a real answer gives
\* a recommendation with steps = "No steps".
C5_DecisionRule ==
  RealAnswer =>
    IF fa_in.resp.Is_Solution /\ fa_in.resp.Confidence >= ConfThreshold
    THEN /\ fa_out.solution = fa_in.resp.Answer
         /\ fa_out.recommendation = Absent
         /\ fa_out.steps = fa_in.resp.Steps
    ELSE /\ fa_out.recommendation = fa_in.resp.Answer
         /\ fa_out.solution = Absent
         /\ fa_out.steps = NoSteps

\* C8: zero-comment result.  find_answers on a post without comments returns
\* (absent, absent, "No steps", 0) and does not invoke the model.
C8_ZeroComments ==
  (fa_out.done /\ ~fa_in.has_comments)
    => /\ fa_out.solution = Absent
       /\ fa_out.recommendation = Absent
       /\ fa_out.steps = NoSteps
       /\ fa_out.confidence = 0
       /\ fa_out.invocations = 0

\* find_answers returned for a post without comments although the model
\* would have answered with a confident solution
C8_Witness ==
  /\ fa_out.done
  /\ ~fa_in.has_comments
  /\ fa_in.script = AllOk
  /\ fa_in.resp.keys = MiningKeys
  /\ fa_in.resp.Answer # NoAnswer
  /\ fa_in.resp.Is_Solution
  /\ fa_in.resp.Confidence >= ConfThreshold

\* C11: the output table reflects the full result set.  When process_posts
\* returns with a non-empty result list, the output table equals that list.
C11_OutputIsResults ==
  (pc = "done" /\ results # <<>>) => csv = File(results)

\* C12: checkpoint deletion ordering.  The checkpoint is deleted only when
\* every post has reached a terminal outcome and the output table holds the
\* result list; no checkpoint exists after a normal return; a later run that
\* starts without a checkpoint follows a run that returned normally.
C12_DeletionOrdering ==
  [][/\ (ckpt.exists /\ ~ckpt'.exists)
          => (i = total_posts /\ csv = File(results))
     /\ pc' = "done" => ~ckpt'.exists
     /\ (runs' = runs + 1 /\ runs >= 1 /\ total_posts > 0 /\ ~ckpt.exists)
          => pc = "done"]_vars

\* no two rows carry the same post id
NoDuplicateIds(rows) ==
  \A a, b \in 1..Len(rows) : rows[a].post_id = rows[b].post_id => a = b

\* C15: de-duplicated output.  The result list, the checkpoint file and the
\* output table each hold at most one record per post id.
C15_Deduplicated ==
  /\ NoDuplicateIds(results)
  /\ NoDuplicateIds(ckpt.rows)
  /\ NoDuplicateIds(csv.rows)

\* the gateway gives up on the post-analysis call of the post: every
\* invocation fails with a connection or timeout error
GatewayExhausted(post) ==
  /\ ~NormalizeText(post.title).raised
  /\ ~NormalizeText(post.self_text).raised
  /\ post.analysis_script = AllTransient

\* C17: two retry layers.  When the gateway exhausts its retries on the
\* post-analysis call, the per-post loop reruns the pipeline until
\* max_retries attempts are used and then skips the post; the failure is not
\* turned into a "no result" outcome after one attempt.
C17_TwoRetryLayers ==
  (last.post # 0 /\ max_retries > 1
     /\ GatewayExhausted(Profile(posts[last.post])))
    => /\ last.attempts = max_retries
       /\ last.outcome = "skipped"

\* the invocation that ended the call, for a call that has ended
GatewayAgrees ==
  gw_state \in {"returned", "raised"}
    => /\ MakeApiCall(gw_script).invocations = gw_n
       /\ MakeApiCall(gw_script).raised = (gw_state = "raised")

\* C16: gateway retry policy.  At most 3 invocations; a further attempt only
\* after a connection or timeout error; any other failure goes to the caller
\* at once (after one invocation when it is the first); a successful attempt
\* returns; the third transient failure goes to the caller.
C16_GatewayPolicy ==
  /\ gw_n <= StopAfterAttempt
  /\ \A k \in 1..(gw_n - 1) : gw_script[k] \in TransientErrors
  /\ gw_state = "returned" => gw_script[gw_n] = "ok"
  /\ (gw_n >= 1 /\ gw_script[gw_n] = "ok") => gw_state = "returned"
  /\ (gw_n >= 1 /\ gw_script[gw_n] = "other") => gw_state = "raised"
  /\ (gw_n >= 1 /\ gw_script[1] = "other") => gw_n = 1
  /\ (gw_n = StopAfterAttempt /\ gw_script[gw_n] \in TransientErrors)
       => gw_state = "raised"
  /\ GatewayAgrees

\* the third attempt failed with a transient error after a mixed pair of
\* transient failures, and the failure went to the caller
C16_Witness ==
  /\ gw_n = StopAfterAttempt
  /\ gw_state = "raised"
  /\ gw_script[1] = "ConnectionError"
  /\ gw_script[2] = "TimeoutError"
  /\ gw_script[3] \in TransientErrors

\* C18: normalisation is total and idempotent on text and absent input.
C18_Idempotent ==
  nt_out.done
    => /\ ~nt_out.once.raised
       /\ ~nt_out.twice.raised
       /\ nt_out.twice.value = nt_out.once.value

\* C19: fatal conditions are surfaced.  A run that finds a checkpoint file it
\* cannot parse raises before any post is processed and leaves both files as
\* they are; a run whose output-table write fails raises and does not delete
\* the checkpoint; a run that raised takes no further step.
C19_FatalSurfaced ==
  [][/\ (runs' = runs + 1 /\ ckpt.exists /\ ~ckpt.valid)
          => /\ pc' = "failed"
             /\ ckpt' = ckpt
             /\ csv' = csv
             /\ results' = <<>>
             /\ status' = AllPending
     /\ (pc = "save_csv" /\ pc' = "failed") => ckpt' = ckpt
     /\ pc = "failed" => (runs' = runs + 1 /\ ckpt' = ckpt /\ csv' = csv)]_vars

\* a run raised on a checkpoint that a killed write left unfinished
C19_Witness ==
  /\ pc = "failed"
  /\ ckpt.exists
  /\ ~ckpt.valid
  /\ total_posts >= CheckpointEvery
  /\ runs = 2

Terminal == {"Completed", "Skipped"}

\* C20: a run that is left alone terminates; when it has, every post at or
\* after the start index is Completed or Skipped and every earlier post is
\* still Pending; and during a run no post leaves a terminal state.
C20_Termination ==
  /\ (pc \in Running /\ runs = MaxRuns) ~> (pc = "done")
  /\ [](pc = "done" =>
          \A p \in 1..total_posts :
            IF p > start THEN status[p] \in Terminal
            ELSE status[p] = "Pending")
  /\ [][(pc \in Running /\ pc' \in Running \cup {"done"}) =>
          \A p \in 1..total_posts :
            status[p] \in Terminal => status'[p] = status[p]]_vars

\* a resumed run ended with posts of both terminal states, one of them
\* after a retry
C20_Witness ==
  /\ pc = "done"
  /\ runs = MaxRuns
  /\ max_retries > 1
  /\ \E p \in 1..total_posts : status[p] = "Skipped"
  /\ \E p \in 1..total_posts : status[p] = "Completed"

\* a run that resumed behind a checkpoint ended
C20_ResumedWitness ==
  /\ pc = "done"
  /\ start > 0
  /\ start < total_posts

\* the post at position p is one whose pipeline raises on every attempt
Failing(p) == PipelineAlwaysRaises(Profile(posts[p]))

\* the records of posts lo..hi, the failing posts taken out of the input
RECURSIVE RecordsWithout(_, _)
RecordsWithout(lo, hi) ==
  IF hi < lo THEN <<>>
  ELSE LET out == ProcessSinglePost(hi, Profile(posts[hi]))
       IN IF ~Failing(hi) /\ out.has_result
          THEN Append(RecordsWithout(lo, hi - 1), out.result)
          ELSE RecordsWithout(lo, hi - 1)

\* C13: partial failure never aborts the run.  A run that is left alone and
\* stands before a failing post reaches the checkpoint cleanup; passing a
\* failing post adds no record and the post that ends a chunk leads to the
\* table write, which writes the result list; and the table of a run that
\* returned holds, after the rows it loaded, the records of the other posts
\* as if the failing posts were not in the input.
C13_PartialFailure ==
  /\ (pc = "loop" /\ runs = MaxRuns /\ Failing(i + 1)) ~> (pc = "cleanup")
  /\ [][/\ (pc = "loop" /\ i' = i + 1 /\ Failing(i + 1)) =>
            /\ results' = results
            /\ pc' = IF i' = chunk_end THEN "save_csv" ELSE "loop"
        /\ (pc = "save_csv" /\ pc' \in Running) => csv' = File(results)]_vars
  /\ [](pc = "done" /\ start < total_posts =>
          LET others == RecordsWithout(start + 1, total_posts)
          IN /\ csv.exists
             /\ Len(csv.rows) = start + Len(others)
             /\ \A k \in 1..Len(others) : csv.rows[start + k] = others[k])

\* a run in more than one chunk returned with a record of a post that came
\* after a post skipped on exhausted retries
C13_Witness ==
  /\ pc = "done"
  /\ chunk_size < total_posts
  /\ max_retries > 1
  /\ \E p, q \in 1..total_posts :
        /\ p < q
        /\ status[p] = "Skipped"
        /\ status[q] = "Completed"
        /\ \E k \in 1..Len(csv.rows) : csv.rows[k].post_id = q

\* the rows this run loaded from the checkpoint
LoadedRows == SubSeq(results, 1, start)

\* the records a run adds for posts lo..hi; chunk_size does not occur in it
RowsBetween(lo, hi) ==
  SubSeq(RunRows(hi), Len(RunRows(lo - 1)) + 1, Len(RunRows(hi)))

\* C14: chunk size has no semantic effect.  The table a returned run leaves
\* and every checkpoint a run writes are the loaded rows followed by the
\* records of the posts handled since, whatever the chunk size; a checkpoint
\* is written exactly when a post at a multiple of 50 gives a record; and a
\* run that goes on changes the table only at the end of a chunk, to the
\* result list so far.
C14_ChunkSizeNoEffect ==
  /\ [](pc = "done" /\ start < total_posts =>
          csv = File(LoadedRows \o RowsBetween(start + 1, total_posts)))
  /\ [][(pc = "loop" /\ pc' \in Running /\ i' = i + 1) =>
          LET gives_record ==
                ProcessSinglePost(i', Profile(posts[i'])).has_result
          IN IF CheckpointDue(i') /\ gives_record
             THEN ckpt' = File(LoadedRows \o RowsBetween(start + 1, i'))
             ELSE ckpt' = ckpt]_vars
  /\ [][(csv' # csv /\ pc' \in Running) =>
          /\ pc = "save_csv"
          /\ i = chunk_end
          /\ csv' = File(LoadedRows \o RowsBetween(start + 1, i))]_vars

\* a run from the first post, in more than one chunk, returned after it had
\* written a checkpoint at post 50
C14_Witness ==
  /\ pc = "done"
  /\ start = 0
  /\ chunk_size < total_posts
  /\ total_posts > CheckpointEvery
  /\ \E k \in 1..Len(csv.rows) : csv.rows[k].post_id = CheckpointEvery

\* a run in chunks of one post returned with a table of several records
C14_SmallChunkWitness ==
  /\ pc = "done"
  /\ chunk_size = 1
  /\ total_posts > 1
  /\ Len(csv.rows) > 1

\* C21: strict sequential order.  Within a run an attempt on the post at
\* index i + 1 is made only when every post from the start index up to i has
\* reached its terminal outcome, and the records of the in-memory result
\* list are in increasing original post index.
C21_SequentialOrder ==
  /\ [][(pc = "loop" /\ pc' \in Running) =>
          /\ status[i + 1] = "Pending"
          /\ \A p \in (start + 1)..i : status[p] \in Terminal]_vars
  /\ [](pc \in Running \cup {"done"} =>
          \A k \in 1..(Len(results) - 1) :
            results[k].post_id < results[k + 1].post_id)

\* positions of the model calls of one kind in the last returned pipeline
CallsOf(kind) == {k \in 1..Len(last.calls) : last.calls[k].kind = kind}

\* the post-analysis response of the last post has a signal, and its
\* relevance, missing key included, is Low or None
LowRelevanceSignal(resp) ==
  /\ "user_complaint" \in resp.keys
  /\ "diagnosis" \in resp.keys
  /\ resp.user_complaint \notin {NoSignal, PyNone}
  /\ resp.diagnosis \notin {NoSignal, PyNone}
  /\ \/ "cybersecurity_relevance" \notin resp.keys
     \/ resp.cybersecurity_relevance \in {"Low", "None"}

\* C22: generalization step.  When the post-analysis call of a pipeline
\* returned a response, one generalization call is made if and only if the
\* response has a signal and relevance Low or None (a missing key counts as
\* None); it takes the analysed complaint, comes after every post-analysis
\* call and before every answer-mining call; the generalized text is the
\* complaint of every answer-mining call and of the record; for relevance
\* High or Medium no generalization call is made and the record and the
\* answer-mining calls carry the analysed complaint.
C22_Generalization ==
  (/\ last.post > 0
   /\ last.outcome \in {"completed", "noresult"}
   /\ ~MakeApiCall(Profile(posts[last.post]).analysis_script).raised) =>
    LET post == Profile(posts[last.post])
        resp == post.analysis
        record == results[Len(results)]
    IN /\ Cardinality(CallsOf("generalize")) =
            (IF LowRelevanceSignal(resp) THEN 1 ELSE 0)
       /\ \A g \in CallsOf("generalize") :
            /\ last.calls[g].complaint = resp.user_complaint
            /\ \A a \in CallsOf("analysis") : a < g
            /\ \A m \in CallsOf("mining") : g < m
       /\ (LowRelevanceSignal(resp) /\ last.outcome = "completed") =>
            /\ record.post_id = last.post
            /\ record.user_complaint = post.generalized
            /\ \A m \in CallsOf("mining") :
                 last.calls[m].complaint = post.generalized
       /\ ("cybersecurity_relevance" \in resp.keys
             /\ resp.cybersecurity_relevance \in {"High", "Medium"}
             /\ last.outcome = "completed") =>
            /\ record.post_id = last.post
            /\ record.user_complaint = resp.user_complaint
            /\ \A m \in CallsOf("mining") :
                 last.calls[m].complaint = resp.user_complaint

\* a post of low relevance was generalized, mined and recorded
C22_Witness ==
  /\ last.post > 0
  /\ last.outcome = "completed"
  /\ CallsOf("generalize") # {}
  /\ CallsOf("mining") # {}
  /\ results[Len(results)].cybersecurity_relevance = "None"
  /\ results[Len(results)].user_complaint = "general complaint"
  /\ Profile(posts[last.post]).analysis.user_complaint # "general complaint"

\* a post of relevance Medium was mined and recorded without generalization
C22_HighWitness ==
  /\ last.post > 0
  /\ last.outcome = "completed"
  /\ CallsOf("generalize") = {}
  /\ CallsOf("mining") # {}
  /\ results[Len(results)].cybersecurity_relevance = "Medium"

\* C23: no-answer sentinel.  When the answer-mining response has the Answer
\* 'No relevant answer found', or no Answer key, find_answers returns
\* (absent, absent, "No steps", 0) whatever Confidence, Is_Solution and
\* Steps are.
C23_NoAnswerSentinel ==
  (/\ fa_out.done
   /\ fa_in.has_comments
   /\ ~fa_in.bad_comment
   /\ fa_in.script \in {AllOk, OneTransient}
   /\ \/ "Answer" \notin fa_in.resp.keys
      \/ fa_in.resp.Answer = "No relevant answer found")
    => /\ fa_out.solution = Absent
       /\ fa_out.recommendation = Absent
       /\ fa_out.steps = "No steps"
       /\ fa_out.confidence = 0

\* find_answers returned on the no-answer literal sent with a confident
\* solution flag and steps
C23_Witness ==
  /\ fa_out.done
  /\ fa_in.has_comments
  /\ ~fa_in.bad_comment
  /\ fa_in.script = AllOk
  /\ fa_in.resp.keys = MiningKeys
  /\ fa_in.resp.Answer = "No relevant answer found"
  /\ fa_in.resp.Is_Solution
  /\ fa_in.resp.Confidence >= ConfThreshold
  /\ fa_in.resp.Steps # "No steps"

\* find_answers returned on a response without an Answer key
C23_MissingKeyWitness ==
  /\ fa_out.done
  /\ fa_in.has_comments
  /\ ~fa_in.bad_comment
  /\ fa_in.script = AllOk
  /\ fa_in.resp.keys = MiningKeys \ {"Answer"}
  /\ fa_in.resp.Is_Solution
  /\ fa_in.resp.Confidence >= ConfThreshold

\* the post ids of the records this run appended
AppendedIds == [k \in 1..(Len(results) - start) |-> results[start + k].post_id]

\* C24: single append per post within a run.  Every append to the result
\* list ends the work on its post (the pipeline is not run on it again), and
\* the records a run appended have distinct post ids, also when the
\* checkpoint write after the append raises.
C24_SingleAppend ==
  /\ [][(pc = "loop" /\ pc' \in Running /\ Len(results') > Len(results)) =>
          i' = i + 1]_vars
  /\ [](pc \in Running \cup {"done"} =>
          \A j, k \in 1..Len(AppendedIds) :
            AppendedIds[j] = AppendedIds[k] => j = k)

\* the pipeline of the post reaches the gateway call of find_answers: its
\* cells are text, the post-analysis call returns a response with a signal,
\* the generalization, when made, returns, and the post has comments whose
\* bodies are all text
ReachesMining(post) ==
  /\ ~NormalizeText(post.title).raised
  /\ ~NormalizeText(post.self_text).raised
  /\ ~MakeApiCall(post.analysis_script).raised
  /\ post.analysis.keys = AnalysisKeys
  /\ post.analysis.user_complaint \notin {NoSignal, PyNone}
  /\ post.analysis.diagnosis \notin {NoSignal, PyNone}
  /\ post.gen_ok
  /\ post.has_comments
  /\ ~post.bad_comment

\* the gateway call of find_answers fails after its retries, or its
\* response has a real answer and a Confidence that cannot be compared
MiningFails(post) ==
  \/ MakeApiCall(post.mining_script).raised
  \/ /\ post.mining.keys = MiningKeys
     /\ post.mining.Answer # NoAnswer
     /\ post.mining.Confidence = NotNumeric

\* C25: answer-mining failure is absorbed.  A post whose pipeline reaches
\* the answer-mining call and whose call fails or whose response cannot be
\* processed is Completed after one attempt, with a record that carries its
\* complaint and diagnosis and (absent, absent, "No steps", 0).
C25_MiningAbsorbed ==
  (/\ last.post > 0
   /\ ReachesMining(Profile(posts[last.post]))
   /\ MiningFails(Profile(posts[last.post]))) =>
    LET post == Profile(posts[last.post])
        record == results[Len(results)]
    IN /\ last.outcome = "completed"
       /\ last.attempts = 1
       /\ status[last.post] = "Completed"
       /\ Len(results) > 0
       /\ record.post_id = last.post
       /\ record.user_complaint =
            (IF post.analysis.cybersecurity_relevance \in {"Low", "None"}
             THEN post.generalized ELSE post.analysis.user_complaint)
       /\ record.diagnosis = post.analysis.diagnosis
       /\ record.solution = Absent
       /\ record.recommendation = Absent
       /\ record.steps = "No steps"
       /\ record.confidence = 0

\* a post whose answer-mining call failed on all three invocations was
\* recorded although the post may be retried
C25_Witness ==
  /\ last.post > 0
  /\ max_retries > 1
  /\ ReachesMining(Profile(posts[last.post]))
  /\ MakeApiCall(Profile(posts[last.post]).mining_script).raised
  /\ last.mine_calls = StopAfterAttempt
  /\ last.outcome = "completed"

\* a post whose answer-mining response could not be processed was recorded
C25_BadResponseWitness ==
  /\ last.post > 0
  /\ ReachesMining(Profile(posts[last.post]))
  /\ Profile(posts[last.post]).mining.Confidence = NotNumeric
  /\ last.outcome = "completed"

IsPrefix(a, b) == Len(a) <= Len(b) /\ a = SubSeq(b, 1, Len(a))

\* C26: monotone durable state.  Within a run the in-memory result list
\* changes only by a record added at its end; and while a run is under way
\* or has returned, the record list of a parseable checkpoint file, and the
\* rows of the output table when this run wrote it, are prefixes of the
\* in-memory result list.
C26_MonotoneDurable ==
  /\ [][(pc \in Running /\ pc' \in Running \cup {"done"}) =>
          \/ results' = results
          \/ /\ Len(results') = Len(results) + 1
             /\ IsPrefix(results, results')]_vars
  /\ [](pc \in Running \cup {"done"} =>
          /\ (ckpt.exists /\ ckpt.valid) => IsPrefix(ckpt.rows, results)
          /\ csv_written => (csv.exists /\ IsPrefix(csv.rows, results)))

\* a run wrote the output table and a checkpoint and then appended further
\* records, so that both are proper prefixes of the result list
C26_Witness ==
  /\ pc \in Running
  /\ csv_written
  /\ ckpt.exists
  /\ ckpt.valid
  /\ ckpt.rows # <<>>
  /\ Len(csv.rows) < Len(results)
  /\ Len(ckpt.rows) < Len(results)
====
